---- MODULE Spec2Model ----
(***************************************************************************)
(* Model of jobname_app/main.py: a Flask application that loads            *)
(* labels_by_input.json once at import time into LABELS_BY_INPUT and       *)
(* serves GET / (home) and GET /predict/ (predict).                        *)
(*                                                                         *)
(* Strings that the lookup compares (table keys, the input parameter) are  *)
(* sequences of one-character strings, so that case, whitespace and        *)
(* prefixes are visible to the model.  Label payloads and messages are     *)
(* never inspected by the code and are kept as atomic strings.             *)
(***************************************************************************)
EXTENDS Integers, Sequences, FiniteSets, TLC

VARIABLES file, pc, LABELS_BY_INPUT, request, response, remembered, handlers

vars == <<file, pc, LABELS_BY_INPUT, request, response, remembered, handlers>>

(***************************************************************************)
(* Bounds                                                                  *)
(***************************************************************************)
\* longest key / input string
MaxLen == 1
\* most members written in the JSON object of the data file
MaxMembers == 1
\* request-handling threads of the development server
NumThreads == 2

Chars == {"a", "A", " "}

Str == UNION {[1..n -> Chars] : n \in 0..MaxLen}

Threads == 1..NumThreads

(***************************************************************************)
(* JSON values of the data file                                            *)
(***************************************************************************)
Scalar(s) == [tag |-> "scalar", items |-> <<s>>]

List(l) == [tag |-> "list", items |-> l]

LabelValues == {Scalar("x"), List(<<"x", "y">>)}

NoFields == [f \in {} |-> Scalar("x")]

\* the values a table key can map to: an object with a Label member, an
\* object without one (the member is spelled "label"), and a non-object
Records ==
    {[kind |-> "object", fields |-> ("Label" :> v)] : v \in LabelValues}
    \cup {[kind |-> "object", fields |-> ("label" :> Scalar("x"))]}
    \cup {[kind |-> "string", fields |-> NoFields]}

MemberSeqs(keys, n) == UNION {[1..m -> keys \X Records] : m \in 0..n}

ObjectDoc(members) == [kind |-> "object", members |-> members, items |-> <<>>, text |-> <<>>]

ArrayDoc(items) == [kind |-> "array", members |-> <<>>, items |-> items, text |-> <<>>]

StringDoc(text) == [kind |-> "string", members |-> <<>>, items |-> <<>>, text |-> text]

NumberDoc == [kind |-> "number", members |-> <<>>, items |-> <<>>, text |-> <<>>]

Docs(keys, n) ==
    {ObjectDoc(ms) : ms \in MemberSeqs(keys, n)}
    \cup {ArrayDoc(<<>>)} \cup {ArrayDoc(<<k>>) : k \in keys}
    \cup {StringDoc(k) : k \in keys}
    \cup {NumberDoc}

\* labels_by_input.json as open() and json.load find it
FilesOver(keys, n) ==
    {[status |-> s, doc |-> NumberDoc] : s \in {"missing", "unreadable", "invalid_json"}}
    \cup {[status |-> "ok", doc |-> d] : d \in Docs(keys, n)}

Files == FilesOver(Str, MaxMembers)

(***************************************************************************)
(* Python values                                                           *)
(***************************************************************************)
EmptyDict == [k \in {} |-> [kind |-> "string", fields |-> NoFields]]

PyDict(d) == [kind |-> "dict", dict |-> d, list |-> <<>>, str |-> <<>>]

PyList(l) == [kind |-> "list", dict |-> EmptyDict, list |-> l, str |-> <<>>]

PyStr(s) == [kind |-> "str", dict |-> EmptyDict, list |-> <<>>, str |-> s]

PyInt == [kind |-> "int", dict |-> EmptyDict, list |-> <<>>, str |-> <<>>]

\* the name LABELS_BY_INPUT before line 5 has bound it
Unset == [kind |-> "unset", dict |-> EmptyDict, list |-> <<>>, str |-> <<>>]

\* Python's None and a str, as request.args.get returns them
None == [none |-> TRUE, str |-> <<>>]

Some(s) == [none |-> FALSE, str |-> s]

\* json builds a dict member by member: a repeated key keeps its last value
LastIndex(members, k) ==
    CHOOSE i \in 1..Len(members) :
        /\ members[i][1] = k
        /\ \A j \in (i + 1)..Len(members) : members[j][1] # k

DictOf(members) ==
    [k \in {members[i][1] : i \in 1..Len(members)} |-> members[LastIndex(members, k)][2]]

json_load(doc) ==
    CASE doc.kind = "object" -> PyDict(DictOf(doc.members))
      [] doc.kind = "array" -> PyList(doc.items)
      [] doc.kind = "string" -> PyStr(doc.text)
      [] OTHER -> PyInt

IsSubstring(x, s) ==
    \E i \in 0..(Len(s) - Len(x)) : SubSeq(s, i + 1, i + Len(x)) = x

\* `x in c` raises TypeError: c is not a container, or c is a str and x is None
InRaises(x, c) == c.kind \in {"int", "unset"} \/ (c.kind = "str" /\ x.none)

In_casefold(x, c) ==
    LET lower(s) == [i \in 1..Len(s) |-> IF s[i] = "A" THEN "a" ELSE s[i]]
    IN CASE c.kind = "dict" -> ~x.none /\ \E k \in DOMAIN c.dict : lower(k) = lower(x.str)
         [] c.kind = "list" -> ~x.none /\ \E i \in 1..Len(c.list) : c.list[i] = x.str
         [] c.kind = "str" -> ~x.none /\ IsSubstring(x.str, c.str)
         [] OTHER -> FALSE

\* `x in c`: key membership of a dict, element equality of a list, substring of a str
In(x, c) ==
    CASE c.kind = "dict" -> ~x.none /\ x.str \in DOMAIN c.dict
      [] c.kind = "list" -> ~x.none /\ \E i \in 1..Len(c.list) : c.list[i] = x.str
      [] c.kind = "str" -> ~x.none /\ IsSubstring(x.str, c.str)
      [] OTHER -> FALSE

NoRecord == [kind |-> "string", fields |-> NoFields]

\* `c[x]`: the dict's value, KeyError for an absent key, TypeError for a
\* list or str indexed by a str
GetItem(c, x) ==
    IF c.kind = "dict"
    THEN IF ~x.none /\ x.str \in DOMAIN c.dict
         THEN [raised |-> "", value |-> c.dict[x.str]]
         ELSE [raised |-> "KeyError", value |-> NoRecord]
    ELSE [raised |-> "TypeError", value |-> NoRecord]

GetLabel_aslist(record) ==
    IF record.kind = "object"
    THEN IF "Label" \in DOMAIN record.fields
         THEN [raised |-> "", value |-> List(record.fields["Label"].items)]
         ELSE [raised |-> "KeyError", value |-> Scalar("")]
    ELSE [raised |-> "TypeError", value |-> Scalar("")]

\* `record['Label']`
GetLabel(record) ==
    IF record.kind = "object"
    THEN IF "Label" \in DOMAIN record.fields
         THEN [raised |-> "", value |-> record.fields["Label"]]
         ELSE [raised |-> "KeyError", value |-> Scalar("")]
    ELSE [raised |-> "TypeError", value |-> Scalar("")]

(***************************************************************************)
(* Requests and responses                                                  *)
(***************************************************************************)
NoRequest == [path |-> "", args |-> <<>>]

HomeRequest == [path |-> "/", args |-> <<>>]

\* args holds the values of the query parameter `input`, none when omitted
PredictRequest(args) == [path |-> "/predict/", args |-> args]

PredictRequestsOver(inputs) == {PredictRequest(<<>>)} \cup {PredictRequest(<<s>>) : s \in inputs}

PredictRequests == PredictRequestsOver(Str)

ArgsGet_default(args) == IF Len(args) = 0 THEN Some(<<>>) ELSE Some(args[1])

\* request.args.get('input'): the first value, None when there is none
ArgsGet(args) == IF Len(args) = 0 THEN None ELSE Some(args[1])

jsonify(name, value) == [name |-> name, value |-> value]

NoResponse == [status |-> 0, body |-> jsonify("", Scalar(""))]

\* an exception that leaves a view function: the server answers 500
InternalError(exc) == [status |-> 500, body |-> [name |-> "traceback", value |-> Scalar(exc)]]

home_needs_table ==
    IF LABELS_BY_INPUT.kind = "dict" /\ DOMAIN LABELS_BY_INPUT.dict # {}
    THEN [status |-> 200, body |-> jsonify("message", Scalar("JobName App is live"))]
    ELSE [status |-> 503, body |-> jsonify("message", Scalar("JobName App is live"))]

home == [status |-> 200, body |-> jsonify("message", Scalar("JobName App is live"))]

NotFound_empty == [status |-> 200, body |-> jsonify("labels", List(<<>>))]

NotFound == [status |-> 404, body |-> jsonify("message", Scalar("No recommendations for user input"))]

\* line 15
Hit(table, user_input) ==
    LET rec == GetItem(table, user_input)
    IN IF rec.raised # "" THEN InternalError(rec.raised)
       ELSE LET lab == GetLabel(rec.value)
            IN IF lab.raised # "" THEN InternalError(lab.raised)
               ELSE [status |-> 200, body |-> jsonify("labels", lab.value)]

\* the whole view function, run without interruption
predict(table, req) ==
    LET user_input == ArgsGet(req.args)
    IN IF InRaises(user_input, table) THEN InternalError("TypeError")
       ELSE IF In(user_input, table) THEN Hit(table, user_input)
       ELSE NotFound

NoExchange == [request |-> NoRequest, response |-> NoResponse, again |-> FALSE]

\* the client notes whether the request it sends now repeats the one it kept
Observe(req) ==
    IF remembered = NoExchange THEN remembered
    ELSE [remembered EXCEPT !.again = (req = remembered.request)]

Idle == [pc |-> "idle", request |-> NoRequest, user_input |-> None, response |-> NoResponse]

(***************************************************************************)
(* Startup                                                                 *)
(***************************************************************************)
Init ==
    /\ file \in Files
    /\ pc = "import"
    /\ LABELS_BY_INPUT = Unset
    /\ request = NoRequest
    /\ response = NoResponse
    /\ remembered = NoExchange
    /\ handlers = [t \in Threads |-> Idle]

\* line 5: open() or json.load raise and the interpreter exits, or the name is bound
Import ==
    /\ pc = "import"
    /\ IF file.status = "ok"
       THEN /\ LABELS_BY_INPUT' = json_load(file.doc)
            /\ pc' = "main"
       ELSE /\ pc' = "exited"
            /\ UNCHANGED LABELS_BY_INPUT
    /\ UNCHANGED <<file, request, response, remembered, handlers>>

\* lines 19-20: app.run binds the listener
AppRun ==
    /\ pc = "main"
    /\ pc' = "serving"
    /\ UNCHANGED <<file, LABELS_BY_INPUT, request, response, remembered, handlers>>

(***************************************************************************)
(* Requests served one at a time                                           *)
(***************************************************************************)
ServeHome ==
    /\ pc = "serving"
    /\ request' = HomeRequest
    /\ response' = home
    /\ remembered' = Observe(HomeRequest)
    /\ UNCHANGED <<file, pc, LABELS_BY_INPUT, handlers>>

ServePredict_pop(req) ==
    /\ pc = "serving"
    /\ request' = req
    /\ response' = predict(LABELS_BY_INPUT, req)
    /\ LABELS_BY_INPUT' =
         IF LABELS_BY_INPUT.kind = "dict" /\ In(ArgsGet(req.args), LABELS_BY_INPUT)
         THEN PyDict([k \in DOMAIN LABELS_BY_INPUT.dict \ {req.args[1]} |-> LABELS_BY_INPUT.dict[k]])
         ELSE LABELS_BY_INPUT
    /\ remembered' = Observe(req)
    /\ UNCHANGED <<file, pc, handlers>>

ServePredict_setdefault(req) ==
    /\ pc = "serving"
    /\ request' = req
    /\ response' = predict(LABELS_BY_INPUT, req)
    /\ LABELS_BY_INPUT' =
         IF LABELS_BY_INPUT.kind = "dict" /\ Len(req.args) > 0 /\ ~In(ArgsGet(req.args), LABELS_BY_INPUT)
         THEN PyDict([k \in DOMAIN LABELS_BY_INPUT.dict \cup {req.args[1]} |->
                        IF k \in DOMAIN LABELS_BY_INPUT.dict THEN LABELS_BY_INPUT.dict[k]
                        ELSE [kind |-> "object", fields |-> ("Label" :> List(<<>>))]])
         ELSE LABELS_BY_INPUT
    /\ remembered' = Observe(req)
    /\ UNCHANGED <<file, pc, handlers>>

ServePredict(req) ==
    /\ pc = "serving"
    /\ request' = req
    /\ response' = predict(LABELS_BY_INPUT, req)
    /\ remembered' = Observe(req)
    /\ UNCHANGED <<file, pc, LABELS_BY_INPUT, handlers>>

\* the client keeps one request it sent, with the answer it got
ClientRecords ==
    /\ response # NoResponse
    /\ remembered = NoExchange
    /\ remembered' = [request |-> request, response |-> response, again |-> FALSE]
    /\ UNCHANGED <<file, pc, LABELS_BY_INPUT, request, response, handlers>>

Next ==
    \/ Import
    \/ AppRun
    \/ ServeHome
    \/ \E req \in PredictRequests : ServePredict(req)
    \/ ClientRecords

Spec == Init /\ [][Next]_vars

(***************************************************************************)
(* Requests served by concurrent threads, one statement at a time          *)
(***************************************************************************)
ConcStr == {<<"a">>, <<"A">>}

ConcFiles ==
    {[status |-> "missing", doc |-> NumberDoc]}
    \cup {[status |-> "ok", doc |-> ObjectDoc(ms)] : ms \in MemberSeqs(ConcStr, 1)}

ConcRequests == {HomeRequest} \cup PredictRequestsOver(ConcStr)

InitConc ==
    /\ file \in ConcFiles
    /\ pc = "import"
    /\ LABELS_BY_INPUT = Unset
    /\ request = NoRequest
    /\ response = NoResponse
    /\ remembered = NoExchange
    /\ handlers = [t \in Threads |-> Idle]

\* the server hands a request to a thread, which enters the routed view function
Accept(t, req) ==
    /\ pc = "serving"
    /\ handlers[t].pc = "idle"
    /\ handlers' = [handlers EXCEPT ![t] =
          [pc |-> IF req.path = "/" THEN "line9" ELSE "line13",
           request |-> req, user_input |-> None, response |-> NoResponse]]
    /\ UNCHANGED <<file, pc, LABELS_BY_INPUT, request, response, remembered>>

\* line 9
HomeReturn(t) ==
    /\ handlers[t].pc = "line9"
    /\ handlers' = [handlers EXCEPT ![t].pc = "done", ![t].response = home]
    /\ UNCHANGED <<file, pc, LABELS_BY_INPUT, request, response, remembered>>

PredictGetInput_global(t) ==
    /\ handlers[t].pc = "line13"
    /\ handlers' = [u \in Threads |->
          IF u = t
          THEN [handlers[u] EXCEPT !.pc = "line14", !.user_input = ArgsGet(handlers[t].request.args)]
          ELSE IF handlers[u].pc \in {"line14", "line15"}
               THEN [handlers[u] EXCEPT !.user_input = ArgsGet(handlers[t].request.args)]
               ELSE handlers[u]]
    /\ UNCHANGED <<file, pc, LABELS_BY_INPUT, request, response, remembered>>

\* line 13: user_input is a local of the call
PredictGetInput(t) ==
    /\ handlers[t].pc = "line13"
    /\ handlers' = [handlers EXCEPT ![t].pc = "line14",
                                    ![t].user_input = ArgsGet(handlers[t].request.args)]
    /\ UNCHANGED <<file, pc, LABELS_BY_INPUT, request, response, remembered>>

\* line 14: the membership test reads the shared table
PredictTest(t) ==
    /\ handlers[t].pc = "line14"
    /\ handlers' =
         IF InRaises(handlers[t].user_input, LABELS_BY_INPUT)
         THEN [handlers EXCEPT ![t].pc = "done", ![t].response = InternalError("TypeError")]
         ELSE IF In(handlers[t].user_input, LABELS_BY_INPUT)
              THEN [handlers EXCEPT ![t].pc = "line15"]
              ELSE [handlers EXCEPT ![t].pc = "line17"]
    /\ UNCHANGED <<file, pc, LABELS_BY_INPUT, request, response, remembered>>

\* line 15: the record is read from the shared table again
PredictHit(t) ==
    /\ handlers[t].pc = "line15"
    /\ handlers' = [handlers EXCEPT ![t].pc = "done",
                                    ![t].response = Hit(LABELS_BY_INPUT, handlers[t].user_input)]
    /\ UNCHANGED <<file, pc, LABELS_BY_INPUT, request, response, remembered>>

\* line 17
PredictMiss(t) ==
    /\ handlers[t].pc = "line17"
    /\ handlers' = [handlers EXCEPT ![t].pc = "done", ![t].response = NotFound]
    /\ UNCHANGED <<file, pc, LABELS_BY_INPUT, request, response, remembered>>

\* the response is written to the socket and the thread is free again
Finish(t) ==
    /\ handlers[t].pc = "done"
    /\ handlers' = [handlers EXCEPT ![t] = Idle]
    /\ UNCHANGED <<file, pc, LABELS_BY_INPUT, request, response, remembered>>

NextConc ==
    \/ Import
    \/ AppRun
    \/ \E t \in Threads, req \in ConcRequests : Accept(t, req)
    \/ \E t \in Threads : HomeReturn(t)
    \/ \E t \in Threads : PredictGetInput(t)
    \/ \E t \in Threads : PredictTest(t)
    \/ \E t \in Threads : PredictHit(t)
    \/ \E t \in Threads : PredictMiss(t)
    \/ \E t \in Threads : Finish(t)

SpecConc == InitConc /\ [][NextConc]_vars

(***************************************************************************)
(* Properties                                                              *)
(***************************************************************************)
Answered == pc = "serving" /\ response # NoResponse

IsTable == LABELS_BY_INPUT.kind = "dict"

Keys == DOMAIN LABELS_BY_INPUT.dict

StoresLabel(record) == record.kind = "object" /\ "Label" \in DOMAIN record.fields

Labels200(value) == [status |-> 200, body |-> [name |-> "labels", value |-> value]]

Msg404 ==
    [status |-> 404,
     body |-> [name |-> "message", value |-> Scalar("No recommendations for user input")]]

Fold(s) == [i \in 1..Len(s) |-> IF s[i] = "A" THEN "a" ELSE s[i]]

Trim(s) ==
    LET idx == {i \in 1..Len(s) : s[i] # " "}
    IN IF idx = {} THEN <<>>
       ELSE SubSeq(s, CHOOSE i \in idx : \A j \in idx : i <= j,
                      CHOOSE i \in idx : \A j \in idx : j <= i)

IsProperPrefix(s, k) == Len(s) < Len(k) /\ SubSeq(k, 1, Len(s)) = s

\* s is no key, but is close to the key k
NearMiss(s, k) ==
    /\ s # k
    /\ \/ Fold(s) = Fold(k)
       \/ Trim(s) = Trim(k)
       \/ IsProperPrefix(s, k)

\* C1: for every loaded table and every key k of it whose record stores a
\* Label value, GET /predict/?input=k is answered 200 with labels equal to
\* that stored value, unchanged.
C1_HitReturnsStoredLabel ==
    \A k \in Str :
        (/\ Answered
         /\ request = PredictRequest(<<k>>)
         /\ IsTable
         /\ k \in Keys
         /\ StoresLabel(LABELS_BY_INPUT.dict[k]))
        => response = Labels200(LABELS_BY_INPUT.dict[k].fields["Label"])

C1_Witness ==
    /\ Answered
    /\ request.path = "/predict/"
    /\ IsTable
    /\ response.status = 200
    /\ response.body.value = Scalar("x")

\* C2: for every loaded table, a GET /predict/ whose input is no key of the
\* table (an absent string, or no input at all) is answered 404 with the
\* fixed message; so is every /predict/ request on an empty table.
C2_MissReturns404 ==
    (/\ Answered
     /\ request.path = "/predict/"
     /\ IsTable
     /\ (request.args = <<>> \/ request.args[1] \notin Keys))
    => response = Msg404

C2_Witness ==
    /\ Answered
    /\ request.path = "/predict/"
    /\ IsTable
    /\ Keys # {}
    /\ request.args # <<>>
    /\ request.args[1] \notin Keys
    /\ response.status = 404

\* C3: every GET /predict/ is answered either 200 with the label data of
\* the record unchanged, or 404 with the fixed message, and nothing else.
C3_DefinedOutcome ==
    (Answered /\ request.path = "/predict/")
    => \/ response = Msg404
       \/ \E k \in Keys :
            /\ StoresLabel(LABELS_BY_INPUT.dict[k])
            /\ response = Labels200(LABELS_BY_INPUT.dict[k].fields["Label"])

\* the data file has the shape the data model describes: a JSON object
\* whose members are objects with a Label member
WellFormedFile ==
    /\ file.status = "ok"
    /\ file.doc.kind = "object"
    /\ \A i \in 1..Len(file.doc.members) : StoresLabel(file.doc.members[i][2])

\* C4 as stated: a /predict/ request with no input, or with the empty
\* string as input, is answered 404 with the fixed message (here already on
\* well-formed data files only).
C4_EmptyInputIsMiss ==
    (/\ Answered
     /\ WellFormedFile
     /\ request.path = "/predict/"
     /\ request.args \in {<<>>, << <<>> >>})
    => response = Msg404

\* C4 amended: on a loaded table, a /predict/ request with no input is
\* answered 404 with the fixed message; one with the empty string as input
\* is answered so when the empty string is no key of the table, and is
\* answered as the hit of that key when it is one.
C4_EmptyInputIsLookup ==
    (Answered /\ request.path = "/predict/" /\ IsTable)
    => /\ request.args = <<>> => response = Msg404
       /\ (request.args = << <<>> >> /\ <<>> \notin Keys) => response = Msg404
       /\ (/\ request.args = << <<>> >>
           /\ <<>> \in Keys
           /\ StoresLabel(LABELS_BY_INPUT.dict[<<>>]))
          => response = Labels200(LABELS_BY_INPUT.dict[<<>>].fields["Label"])

C4_Witness ==
    /\ Answered
    /\ request = PredictRequest(<< <<>> >>)
    /\ IsTable
    /\ <<>> \in Keys
    /\ response.status = 200
    /\ remembered.request = PredictRequest(<<>>)
    /\ remembered.response.status = 404

\* C5: a request is answered only when the table is completely loaded, and
\* when the data file is missing, unreadable or malformed the server never
\* listens and never answers.
C5_NoServingOnBadData ==
    /\ response # NoResponse
       => (file.status = "ok" /\ LABELS_BY_INPUT = json_load(file.doc))
    /\ ~WellFormedFile => (pc # "serving" /\ response = NoResponse)

\* C6: once loaded, the table is what json.load made of the data file,
\* whatever requests have been served since.
C6_TableNeverChanges ==
    pc \in {"main", "serving"} => LABELS_BY_INPUT = json_load(file.doc)

C6_Witness ==
    /\ Answered
    /\ IsTable
    /\ Keys # {}
    /\ remembered.response.status = 200
    /\ remembered.response.body.name = "labels"
    /\ response.status = 404
    /\ LABELS_BY_INPUT = json_load(file.doc)

\* C7: GET / is answered 200 with the message "JobName App is live",
\* whatever was loaded and whatever was served before.
C7_HomeAlwaysLive ==
    (Answered /\ request = HomeRequest)
    => /\ response.status = 200
       /\ response.body = [name |-> "message", value |-> Scalar("JobName App is live")]

C7_Witness ==
    /\ Answered
    /\ request = HomeRequest
    /\ IsTable
    /\ Keys = {}
    /\ remembered.response.status = 404
    /\ response.status = 200

\* C8: a request that repeats an earlier one gets the answer the earlier
\* one got, status and body.
C8_Idempotent ==
    (Answered /\ remembered # NoExchange /\ request = remembered.request)
    => response = remembered.response

C8_Witness ==
    /\ Answered
    /\ remembered.again
    /\ request = remembered.request
    /\ request.path = "/predict/"
    /\ response.status = 200
    /\ response = remembered.response

\* the answer a request gets when it is handled alone on the loaded table
Alone(req) == IF req.path = "/" THEN home ELSE predict(json_load(file.doc), req)

\* C9: under every interleaving of the handlers' statements, each request
\* gets the answer it gets when handled alone.
C9_ConcurrentIndependent ==
    \A t \in Threads :
        handlers[t].pc = "done" => handlers[t].response = Alone(handlers[t].request)

C9_Witness ==
    \E t \in Threads, u \in Threads :
        /\ t # u
        /\ handlers[t].pc = "done"
        /\ handlers[t].response.status = 200
        /\ handlers[u].pc = "line17"
        /\ handlers[u].request.args # <<>>

\* C10: the lookup is exact: an input that is no key is answered 404 even
\* when it differs from a key only in case or in surrounding whitespace or
\* is a proper prefix of a key, and only an input equal to a key is answered
\* 200.
C10_ExactMatch ==
    \A s \in Str :
        (Answered /\ request = PredictRequest(<<s>>) /\ IsTable)
        => /\ response.status = 200 => s \in Keys
           /\ (\E k \in Keys : NearMiss(s, k)) /\ s \notin Keys => response = Msg404

C10_Witness ==
    /\ Answered
    /\ request.path = "/predict/"
    /\ request.args # <<>>
    /\ IsTable
    /\ \E k \in Keys : request.args[1] # k /\ Fold(request.args[1]) = Fold(k)
    /\ response.status = 404

====
